---- MODULE Spec2Model ----
(***************************************************************************)
(* The DNS-over-TLS supervisor loop of internal/dns (looper.Run) with the  *)
(* resolver processes it starts, the command channels it serves and the   *)
(* root context that cancels it; the restart ticker (RunRestartTicker)    *)
(* with its timer, and the settings store (SetSettings).                  *)
(***************************************************************************)
EXTENDS Integers, Sequences, FiniteSets

\* Number of resolver processes Configurator.Start may hand out in one run.
MaxProcs == 2

Procs == 1..MaxProcs

Commands == {"start", "stop", "restart"}

\* net.IP values. NoIP is the nil net.IP.
NoIP == "nil"
Loopback == "127.0.0.1"
OrigDNS == "orig"

\* targetIP.To4() != nil
IsIPv4(ip) == ip \in {"B4", "C4", "D4a", "D4b", "P4"}

\* constants.DNSProviderMapping()[provider].IPs
ProviderIPs(provider) ==
  CASE provider = "A" -> <<"A6">>
    [] provider = "B" -> <<"B6", "B4">>
    [] provider = "C" -> <<"C4", "C6">>
    [] provider = "D" -> <<"D6", "D4a", "D4b">>
    [] OTHER -> <<>>

\* The settings NewLooper may be given.
SettingsChoices ==
  { [Enabled |-> e, PlaintextAddress |-> a, Providers |-> ps] :
      e \in BOOLEAN,
      a \in {NoIP, "P4"},
      ps \in {<<"A">>, <<"A", "B">>} }

Range(s) == {s[i] : i \in DOMAIN s}
Count(s, x) == Cardinality({i \in DOMAIN s : s[i] = x})

VARIABLES
  pc,               \* where Run is
  ctxDone,          \* ctx.Done() is closed
  settings,         \* l.settings
  triggeredRestart, \* Run's local triggeredRestart
  unboundCancel,    \* the process Run's unboundCancel cancels (0: none)
  waitError,        \* the process whose exit Run's waitError carries (0: nil)
  proc,             \* the resolver processes Configurator.Start has started
  dnsInternal,      \* target of the last UseDNSInternally
  dnsSystem,        \* system-wide DNS target in force
  sysReq,           \* target of the last UseDNSSystemWide call
  senders,          \* callers blocked in Start(), Stop(), Restart()
  lastCmd,          \* the command Run received last
  out,              \* the calls Run made in its last step
  updatePeriod,     \* l.settings.UpdatePeriod
  tpc,              \* where RunRestartTicker is
  timer,            \* RunRestartTicker's time.Timer
  timerIsStopped,   \* RunRestartTicker's local timerIsStopped
  lastTick,         \* RunRestartTicker's local lastTick (0: time.Unix(0, 0))
  now,              \* the clock l.timeNow reads
  tout,             \* the timer calls RunRestartTicker made in its last step
  set               \* the SetSettings call in progress

\* The state of RunRestartTicker, SetSettings and the clock.
schedVars == <<updatePeriod, tpc, timer, timerIsStopped, lastTick, now, tout,
              set>>

vars == <<pc, ctxDone, settings, triggeredRestart, unboundCancel, waitError,
          proc, dnsInternal, dnsSystem, sysReq, senders, lastCmd, out,
          updatePeriod, tpc, timer, timerIsStopped, lastTick, now, tout, set>>

NoProc == [st |-> "none", cancelled |-> FALSE, waiter |-> "none",
           recvd |-> 0, closed |-> 0]

\* A time.Timer that is stopped, its channel empty.
StoppedTimer == [active |-> FALSE, chan |-> 0, deadline |-> 0]

\* No SetSettings call is in progress.
NoCall == [pc |-> "idle", updatePeriodDiffers |-> FALSE, locks |-> 0,
           unlocks |-> 0]

\* RunRestartTicker has not begun and SetSettings has not been called.
InitTicker ==
  /\ tpc = "tinit"
  /\ timer = StoppedTimer
  /\ timerIsStopped = TRUE
  /\ lastTick = 0
  /\ now = 1
  /\ tout = <<>>
  /\ set = NoCall

\* The looper NewLooper returns, before Run.
InitLoop ==
  /\ pc = "init"
  /\ ctxDone = FALSE
  /\ settings \in SettingsChoices
  /\ triggeredRestart = FALSE
  /\ unboundCancel = 0
  /\ waitError = 0
  /\ proc = [p \in Procs |-> NoProc]
  /\ dnsInternal = OrigDNS
  /\ dnsSystem = OrigDNS
  /\ sysReq = NoIP
  /\ senders = {}
  /\ lastCmd = "none"
  /\ out = <<>>

\* Run alone: nothing in Run reads UpdatePeriod.
Init ==
  /\ InitLoop
  /\ updatePeriod = 0
  /\ InitTicker

\* IPv4Of taking the last IPv4 address of the list.
IPv4Of_Last(ips) ==
  LET idx == {i \in DOMAIN ips : IsIPv4(ips[i])}
  IN IF idx = {} THEN NoIP
     ELSE ips[CHOOSE i \in idx : \A j \in idx : i >= j]

\* The loop over data.IPs of useUnencryptedDNS: the first IPv4 address of a
\* provider's address list, NoIP when it has none.
IPv4Of(ips) ==
  LET idx == {i \in DOMAIN ips : IsIPv4(ips[i])}
  IN IF idx = {} THEN NoIP
     ELSE ips[CHOOSE i \in idx : \A j \in idx : i <= j]

\* The loop over settings.Providers of useUnencryptedDNS.
RECURSIVE ProvidersIPv4(_)
ProvidersIPv4(providers) ==
  IF providers = <<>> THEN NoIP
  ELSE LET ip == IPv4Of(ProviderIPs(Head(providers)))
       IN IF ip # NoIP THEN ip ELSE ProvidersIPv4(Tail(providers))

\* The address useUnencryptedDNS switches to, NoIP when it finds none.
TargetIP(s) ==
  IF s.PlaintextAddress # NoIP THEN s.PlaintextAddress
  ELSE ProvidersIPv4(s.Providers)

\* useUnencryptedDNS: what it does to the DNS targets. sysOk is whether
\* UseDNSSystemWide returns no error.
useUnencryptedDNS(sysOk) ==
  LET t == TargetIP(settings)
  IN IF t = NoIP
     THEN UNCHANGED <<dnsInternal, dnsSystem, sysReq>>
     ELSE /\ dnsInternal' = t
          /\ sysReq' = t
          /\ dnsSystem' = IF sysOk THEN t ELSE dnsSystem

\* useUnencryptedDNS: the calls it makes.
unencryptedCalls(sysOk) ==
  IF TargetIP(settings) = NoIP THEN <<"logError">>
  ELSE <<"UseDNSInternally", "UseDNSSystemWide">>
       \o (IF sysOk THEN <<>> ELSE <<"logError">>)

\* l.isEnabled()
isEnabled == settings.Enabled

\* l.setEnabled(enabled)
setEnabled(enabled) == settings' = [settings EXCEPT !.Enabled = enabled]

\* The processes ps after a call of the cancel function bound to process p.
Cancel(ps, p) ==
  IF p = 0 THEN ps ELSE [ps EXCEPT ![p].cancelled = TRUE]

\* Whether a receive from the channel of process w returns: its exit-wait
\* goroutine is at its send (waitFn has returned), or the channel is closed.
CanRecv(w) ==
  /\ w # 0
  /\ \/ proc[w].closed > 0
     \/ proc[w].waiter = "blocked" /\ proc[w].st = "exited"

\* The processes ps after <-waitError; close(waitError) on the channel of w.
RecvClose(ps, w) ==
  [ps EXCEPT ![w].waiter = IF ps[w].closed > 0 THEN @ ELSE "done",
             ![w].recvd = IF ps[w].closed > 0 THEN @ ELSE @ + 1,
             ![w].closed = @ + 1]

\* A receive of command c from its channel.
Accept(c) ==
  /\ c \in senders
  /\ senders' = senders \ {c}
  /\ lastCmd' = c

NoAccept == UNCHANGED <<senders, lastCmd>>
NoDNS == UNCHANGED <<dnsInternal, dnsSystem, sysReq>>
NoHandle == UNCHANGED <<unboundCancel, waitError, proc>>

\* ---------------------------------------------------------------- callers

\* looper.Start, Stop, Restart: the caller blocks at its send.
Send(c) ==
  /\ c \notin senders
  /\ senders' = senders \cup {c}
  /\ UNCHANGED <<pc, ctxDone, settings, triggeredRestart, unboundCancel,
                 waitError, proc, dnsInternal, dnsSystem, sysReq, lastCmd, out>>
  /\ UNCHANGED schedVars

\* The root context is cancelled.
CancelCtx ==
  /\ ~ctxDone
  /\ ctxDone' = TRUE
  /\ UNCHANGED <<pc, settings, triggeredRestart, unboundCancel, waitError,
                 proc, dnsInternal, dnsSystem, sysReq, senders, lastCmd, out>>
  /\ UNCHANGED schedVars

\* The resolver process p exits: waitFn returns in its exit-wait goroutine.
ProcExit(p) ==
  /\ proc[p].st = "running"
  /\ proc' = [proc EXCEPT ![p].st = "exited"]
  /\ UNCHANGED <<pc, ctxDone, settings, triggeredRestart, unboundCancel,
                 waitError, dnsInternal, dnsSystem, sysReq, senders, lastCmd,
                 out>>
  /\ UNCHANGED schedVars

\* ------------------------------------------------------------------- Run

\* Run, up to waitForFirstStart.
RunBegin ==
  /\ pc = "init"
  /\ \E sysOk \in BOOLEAN :
       /\ useUnencryptedDNS(sysOk)
       /\ out' = unencryptedCalls(sysOk)
  /\ pc' = "first"
  /\ NoAccept /\ NoHandle
  /\ UNCHANGED <<ctxDone, settings, triggeredRestart>>
  /\ UNCHANGED schedVars

\* waitForFirstStart, case <-l.stop
FirstStop ==
  /\ pc = "first"
  /\ Accept("stop")
  /\ setEnabled(FALSE)
  /\ out' = <<"logInfo">>
  /\ NoDNS /\ NoHandle
  /\ UNCHANGED <<pc, ctxDone, triggeredRestart>>
  /\ UNCHANGED schedVars

\* waitForFirstStart, case <-l.restart
FirstRestart ==
  /\ pc = "first"
  /\ Accept("restart")
  /\ IF isEnabled
     THEN pc' = "entered" /\ out' = <<>>
     ELSE pc' = pc /\ out' = <<"signalDNSReady", "logInfo">>
  /\ NoDNS /\ NoHandle
  /\ UNCHANGED <<ctxDone, settings, triggeredRestart>>
  /\ UNCHANGED schedVars

\* waitForFirstStart, case <-l.start
FirstStart ==
  /\ pc = "first"
  /\ Accept("start")
  /\ setEnabled(TRUE)
  /\ pc' = "entered"
  /\ out' = <<>>
  /\ NoDNS /\ NoHandle
  /\ UNCHANGED <<ctxDone, triggeredRestart>>
  /\ UNCHANGED schedVars

\* waitForFirstStart, case <-ctx.Done(); Run then returns at its ctx.Err() test.
FirstCtxDone ==
  /\ pc = "first"
  /\ ctxDone
  /\ pc' = "done"
  /\ out' = <<>>
  /\ NoAccept /\ NoDNS /\ NoHandle
  /\ UNCHANGED <<ctxDone, settings, triggeredRestart>>
  /\ UNCHANGED schedVars

\* Run between waitForFirstStart and its loop.
AfterFirstStart ==
  /\ pc = "entered"
  /\ IF ctxDone
     THEN pc' = "done" /\ out' = <<>> /\ UNCHANGED settings
     ELSE pc' = "top" /\ out' = <<>> /\ setEnabled(TRUE)
  /\ NoAccept /\ NoDNS /\ NoHandle
  /\ UNCHANGED <<ctxDone, triggeredRestart>>
  /\ UNCHANGED schedVars

\* The loop test fails: the loop is left, unboundCancel() is called, Run returns.
LoopExit ==
  /\ pc = "top"
  /\ ctxDone
  /\ proc' = Cancel(proc, unboundCancel)
  /\ pc' = "done"
  /\ out' = <<"unboundCancel", "logWarn">>
  /\ NoAccept /\ NoDNS
  /\ UNCHANGED <<ctxDone, settings, triggeredRestart, unboundCancel, waitError>>
  /\ UNCHANGED schedVars

\* The loop test holds: waitForSubsequentStart is entered, and returns at once
\* when the loop is enabled.
LoopContinue ==
  /\ pc = "top"
  /\ ~ctxDone
  /\ pc' = IF isEnabled THEN "hints" ELSE "reenable"
  /\ out' = <<>>
  /\ NoAccept /\ NoDNS /\ NoHandle
  /\ UNCHANGED <<ctxDone, settings, triggeredRestart>>
  /\ UNCHANGED schedVars

\* waitForSubsequentStart, case <-l.stop
ReenableStop ==
  /\ pc = "reenable"
  /\ Accept("stop")
  /\ out' = <<"logInfo">>
  /\ NoDNS /\ NoHandle
  /\ UNCHANGED <<pc, ctxDone, settings, triggeredRestart>>
  /\ UNCHANGED schedVars

\* waitForSubsequentStart, case <-l.restart
ReenableRestart ==
  /\ pc = "reenable"
  /\ Accept("restart")
  /\ IF ~isEnabled
     THEN pc' = pc /\ out' = <<"logInfo">>
     ELSE pc' = "hints" /\ out' = <<>>
  /\ NoDNS /\ NoHandle
  /\ UNCHANGED <<ctxDone, settings, triggeredRestart>>
  /\ UNCHANGED schedVars

\* waitForSubsequentStart, case <-l.start
ReenableStart ==
  /\ pc = "reenable"
  /\ Accept("start")
  /\ setEnabled(TRUE)
  /\ pc' = "hints"
  /\ out' = <<>>
  /\ NoDNS /\ NoHandle
  /\ UNCHANGED <<ctxDone, triggeredRestart>>
  /\ UNCHANGED schedVars

\* waitForSubsequentStart, case <-ctx.Done(): it returns, and Run goes on to
\* its setup.
ReenableCtxDone ==
  /\ pc = "reenable"
  /\ ctxDone
  /\ proc' = Cancel(proc, unboundCancel)
  /\ pc' = "hints"
  /\ out' = <<"unboundCancel">>
  /\ NoAccept /\ NoDNS
  /\ UNCHANGED <<ctxDone, settings, triggeredRestart, unboundCancel, waitError>>
  /\ UNCHANGED schedVars

\* The processes Configurator.Start has started.
Started == {p \in Procs : proc[p].st # "none"}

\* l.conf.DownloadRootHints; on an error logAndWait is entered.
DownloadRootHints ==
  /\ pc = "hints"
  /\ \E ok \in BOOLEAN :
       IF ok
       THEN pc' = "key" /\ out' = <<"DownloadRootHints">>
       ELSE pc' = "backoff" /\ out' = <<"DownloadRootHints", "logWarn">>
  /\ NoAccept /\ NoDNS /\ NoHandle
  /\ UNCHANGED <<ctxDone, settings, triggeredRestart>>
  /\ UNCHANGED schedVars

\* l.conf.DownloadRootKey; on an error logAndWait is entered.
DownloadRootKey ==
  /\ pc = "key"
  /\ \E ok \in BOOLEAN :
       IF ok
       THEN pc' = "conf" /\ out' = <<"DownloadRootKey">>
       ELSE pc' = "backoff" /\ out' = <<"DownloadRootKey", "logWarn">>
  /\ NoAccept /\ NoDNS /\ NoHandle
  /\ UNCHANGED <<ctxDone, settings, triggeredRestart>>
  /\ UNCHANGED schedVars

\* MakeUnboundConf with the teardown of a triggered restart left out.
MakeUnboundConf_SkipsTeardown ==
  /\ pc = "conf"
  /\ \E ok \in BOOLEAN :
       IF ~ok
       THEN pc' = "backoff" /\ out' = <<"MakeUnboundConf", "logWarn">>
       ELSE pc' = "launch" /\ out' = <<"MakeUnboundConf">>
  /\ NoAccept /\ NoDNS /\ NoHandle
  /\ UNCHANGED <<ctxDone, settings, triggeredRestart>>
  /\ UNCHANGED schedVars

\* l.conf.MakeUnboundConf; on success, if triggeredRestart is set, the
\* teardown of the running process begins: unboundCancel(), then <-waitError.
MakeUnboundConf ==
  /\ pc = "conf"
  /\ \E ok \in BOOLEAN :
       IF ~ok
       THEN /\ pc' = "backoff"
            /\ out' = <<"MakeUnboundConf", "logWarn">>
            /\ UNCHANGED <<triggeredRestart, proc>>
       ELSE IF triggeredRestart
       THEN /\ triggeredRestart' = FALSE
            /\ proc' = Cancel(proc, unboundCancel)
            /\ pc' = "teardown"
            /\ out' = <<"MakeUnboundConf", "unboundCancel">>
       ELSE /\ pc' = "launch"
            /\ out' = <<"MakeUnboundConf">>
            /\ UNCHANGED <<triggeredRestart, proc>>
  /\ NoAccept /\ NoDNS
  /\ UNCHANGED <<ctxDone, settings, unboundCancel, waitError>>
  /\ UNCHANGED schedVars

\* The teardown of a triggered restart: <-waitError; close(waitError).
TeardownRecv ==
  /\ pc = "teardown"
  /\ CanRecv(waitError)
  /\ proc' = RecvClose(proc, waitError)
  /\ pc' = "launch"
  /\ out' = <<"recv", "close">>
  /\ NoAccept /\ NoDNS
  /\ UNCHANGED <<ctxDone, settings, triggeredRestart, unboundCancel, waitError>>
  /\ UNCHANGED schedVars

\* Launch with the fallback left out when Configurator.Start fails.
Launch_NoFallback ==
  /\ pc = "launch"
  /\ \E ok, sysOk \in BOOLEAN :
       IF ok
       THEN LET p == Cardinality(Started) + 1
            IN /\ p \in Procs
               /\ proc' = [proc EXCEPT ![p].st = "running"]
               /\ unboundCancel' = p
               /\ dnsInternal' = Loopback
               /\ sysReq' = Loopback
               /\ dnsSystem' = IF sysOk THEN Loopback ELSE dnsSystem
               /\ pc' = "waitready"
               /\ out' = <<"Start", "goMerge", "UseDNSInternally",
                           "UseDNSSystemWide">>
                         \o (IF sysOk THEN <<>> ELSE <<"logError">>)
       ELSE /\ unboundCancel' = 0
            /\ NoDNS
            /\ pc' = "backoff"
            /\ out' = <<"Start", "unboundCancel", "logWarn">>
            /\ UNCHANGED proc
  /\ NoAccept
  /\ UNCHANGED <<ctxDone, settings, triggeredRestart, waitError>>
  /\ UNCHANGED schedVars

\* context.WithCancel and l.conf.Start. On success the DNS is pointed at the
\* loopback address; on an error: unboundCancel(), useUnencryptedDNS, logAndWait.
Launch ==
  /\ pc = "launch"
  /\ \E ok, sysOk \in BOOLEAN :
       IF ok
       THEN LET p == Cardinality(Started) + 1
            IN /\ p \in Procs
               /\ proc' = [proc EXCEPT ![p].st = "running"]
               /\ unboundCancel' = p
               /\ dnsInternal' = Loopback
               /\ sysReq' = Loopback
               /\ dnsSystem' = IF sysOk THEN Loopback ELSE dnsSystem
               /\ pc' = "waitready"
               /\ out' = <<"Start", "goMerge", "UseDNSInternally",
                           "UseDNSSystemWide">>
                         \o (IF sysOk THEN <<>> ELSE <<"logError">>)
       ELSE /\ unboundCancel' = 0
            /\ useUnencryptedDNS(sysOk)
            /\ pc' = "backoff"
            /\ out' = <<"Start", "unboundCancel">> \o unencryptedCalls(sysOk)
                      \o <<"logWarn">>
            /\ UNCHANGED proc
  /\ NoAccept
  /\ UNCHANGED <<ctxDone, settings, triggeredRestart, waitError>>
  /\ UNCHANGED schedVars

\* WaitForUnbound with signalDNSReady called before the error is tested.
WaitForUnbound_SignalsBeforeTest ==
  /\ pc = "waitready"
  /\ \E ok, sysOk \in BOOLEAN :
       IF ok
       THEN /\ waitError' = unboundCancel
            /\ proc' = [proc EXCEPT ![unboundCancel].waiter = "blocked"]
            /\ pc' = "active"
            /\ out' = <<"WaitForUnbound", "signalDNSReady", "goWaitFn",
                        "logInfo">>
            /\ NoDNS
       ELSE /\ proc' = Cancel(proc, unboundCancel)
            /\ useUnencryptedDNS(sysOk)
            /\ pc' = "backoff"
            /\ out' = <<"WaitForUnbound", "signalDNSReady", "unboundCancel">>
                      \o unencryptedCalls(sysOk) \o <<"logWarn">>
            /\ UNCHANGED waitError
  /\ NoAccept
  /\ UNCHANGED <<ctxDone, settings, triggeredRestart, unboundCancel>>
  /\ UNCHANGED schedVars

\* l.conf.WaitForUnbound. On success waitError is made, the exit-wait goroutine
\* is started and signalDNSReady is called; on an error: unboundCancel(),
\* useUnencryptedDNS, logAndWait.
WaitForUnbound ==
  /\ pc = "waitready"
  /\ \E ok, sysOk \in BOOLEAN :
       IF ok
       THEN /\ waitError' = unboundCancel
            /\ proc' = [proc EXCEPT ![unboundCancel].waiter = "blocked"]
            /\ pc' = "active"
            /\ out' = <<"WaitForUnbound", "goWaitFn", "logInfo",
                        "signalDNSReady">>
            /\ NoDNS
       ELSE /\ proc' = Cancel(proc, unboundCancel)
            /\ useUnencryptedDNS(sysOk)
            /\ pc' = "backoff"
            /\ out' = <<"WaitForUnbound", "unboundCancel">>
                      \o unencryptedCalls(sysOk) \o <<"logWarn">>
            /\ UNCHANGED waitError
  /\ NoAccept
  /\ UNCHANGED <<ctxDone, settings, triggeredRestart, unboundCancel>>
  /\ UNCHANGED schedVars

\* ActiveCtxDone with the call of unboundCancel left out.
ActiveCtxDone_NoCancel ==
  /\ pc = "active"
  /\ ctxDone
  /\ pc' = "ctxDrain"
  /\ out' = <<"logWarn">>
  /\ NoAccept /\ NoDNS /\ NoHandle
  /\ UNCHANGED <<ctxDone, settings, triggeredRestart>>
  /\ UNCHANGED schedVars

\* The select of the running loop, case <-ctx.Done(): unboundCancel(), then
\* <-waitError.
ActiveCtxDone ==
  /\ pc = "active"
  /\ ctxDone
  /\ proc' = Cancel(proc, unboundCancel)
  /\ pc' = "ctxDrain"
  /\ out' = <<"logWarn", "unboundCancel">>
  /\ NoAccept /\ NoDNS
  /\ UNCHANGED <<ctxDone, settings, triggeredRestart, unboundCancel, waitError>>
  /\ UNCHANGED schedVars

\* After cancellation: <-waitError; close(waitError); return.
CtxDrain ==
  /\ pc = "ctxDrain"
  /\ CanRecv(waitError)
  /\ proc' = RecvClose(proc, waitError)
  /\ pc' = "done"
  /\ out' = <<"recv", "close", "logWarn">>
  /\ NoAccept /\ NoDNS
  /\ UNCHANGED <<ctxDone, settings, triggeredRestart, unboundCancel, waitError>>
  /\ UNCHANGED schedVars

\* The select of the running loop, case <-l.restart
ActiveRestart ==
  /\ pc = "active"
  /\ Accept("restart")
  /\ triggeredRestart' = TRUE
  /\ pc' = "top"
  /\ out' = <<"logInfo">>
  /\ NoDNS /\ NoHandle
  /\ UNCHANGED <<ctxDone, settings>>
  /\ UNCHANGED schedVars

\* ActiveStart handled as a restart is.
ActiveStart_Restarts ==
  /\ pc = "active"
  /\ Accept("start")
  /\ triggeredRestart' = TRUE
  /\ pc' = "top"
  /\ out' = <<"logInfo">>
  /\ NoDNS /\ NoHandle
  /\ UNCHANGED <<ctxDone, settings>>
  /\ UNCHANGED schedVars

\* The select of the running loop, case <-l.start
ActiveStart ==
  /\ pc = "active"
  /\ Accept("start")
  /\ out' = <<"logInfo">>
  /\ NoDNS /\ NoHandle
  /\ UNCHANGED <<pc, ctxDone, settings, triggeredRestart>>
  /\ UNCHANGED schedVars

\* The select of the running loop, case <-l.stop: unboundCancel(), then
\* <-waitError.
ActiveStop ==
  /\ pc = "active"
  /\ Accept("stop")
  /\ proc' = Cancel(proc, unboundCancel)
  /\ pc' = "stopDrain"
  /\ out' = <<"logInfo", "unboundCancel">>
  /\ NoDNS
  /\ UNCHANGED <<ctxDone, settings, triggeredRestart, unboundCancel, waitError>>
  /\ UNCHANGED schedVars

\* After a stop: <-waitError; close(waitError); l.setEnabled(false).
StopDrain ==
  /\ pc = "stopDrain"
  /\ CanRecv(waitError)
  /\ proc' = RecvClose(proc, waitError)
  /\ setEnabled(FALSE)
  /\ pc' = "top"
  /\ out' = <<"recv", "close", "setEnabled">>
  /\ NoAccept /\ NoDNS
  /\ UNCHANGED <<ctxDone, triggeredRestart, unboundCancel, waitError>>
  /\ UNCHANGED schedVars

\* The select of the running loop, case err := <-waitError: the process exited
\* on its own.
ActiveExit ==
  /\ pc = "active"
  /\ CanRecv(waitError)
  /\ proc' = Cancel(RecvClose(proc, waitError), unboundCancel)
  /\ \E sysOk \in BOOLEAN :
       /\ useUnencryptedDNS(sysOk)
       /\ out' = <<"recv", "close", "unboundCancel">>
                 \o unencryptedCalls(sysOk) \o <<"logWarn">>
  /\ pc' = "backoff"
  /\ NoAccept
  /\ UNCHANGED <<ctxDone, settings, triggeredRestart, unboundCancel, waitError>>
  /\ UNCHANGED schedVars

\* logAndWait, case <-timer.C: the 10 seconds have passed.
BackoffTimer ==
  /\ pc = "backoff"
  /\ pc' = "top"
  /\ out' = <<"timer">>
  /\ NoAccept /\ NoDNS /\ NoHandle
  /\ UNCHANGED <<ctxDone, settings, triggeredRestart>>
  /\ UNCHANGED schedVars

\* logAndWait, case <-ctx.Done()
BackoffCtxDone ==
  /\ pc = "backoff"
  /\ ctxDone
  /\ pc' = "top"
  /\ out' = <<"ctxDone">>
  /\ NoAccept /\ NoDNS /\ NoHandle
  /\ UNCHANGED <<ctxDone, settings, triggeredRestart>>
  /\ UNCHANGED schedVars

\* A step of Run.
RunStep ==
  \/ RunBegin
  \/ FirstStop
  \/ FirstRestart
  \/ FirstStart
  \/ FirstCtxDone
  \/ AfterFirstStart
  \/ LoopExit
  \/ LoopContinue
  \/ ReenableStop
  \/ ReenableRestart
  \/ ReenableStart
  \/ ReenableCtxDone
  \/ DownloadRootHints
  \/ DownloadRootKey
  \/ MakeUnboundConf
  \/ TeardownRecv
  \/ Launch
  \/ WaitForUnbound
  \/ ActiveCtxDone
  \/ CtxDrain
  \/ ActiveRestart
  \/ ActiveStart
  \/ ActiveStop
  \/ StopDrain
  \/ ActiveExit
  \/ BackoffTimer
  \/ BackoffCtxDone

Next ==
  \/ RunStep
  \/ \E c \in Commands : Send(c)
  \/ CancelCtx
  \/ \E p \in Procs : ProcExit(p)

Spec == Init /\ [][Next]_vars

\* Run's goroutine keeps being scheduled, and a process whose context is
\* cancelled exits.
FairSpec ==
  /\ Spec
  /\ WF_vars(RunStep)
  /\ \A p \in Procs : WF_vars(proc[p].cancelled /\ ProcExit(p))

\* ------------------------------------------------ ticker and settings

\* The clock stops at MaxTime.
MaxTime == 7

\* The values of settings.UpdatePeriod.
Periods == {0, 1, 3}

Max(a, b) == IF a >= b THEN a ELSE b

loopVars == <<pc, ctxDone, settings, triggeredRestart, unboundCancel,
              waitError, proc, dnsInternal, dnsSystem, sysReq, senders,
              lastCmd, out>>

\* timer.Reset(d): the timer fires d from now, at once when d is not
\* positive. A value still in timer.C stays there.
Reset(d) == [active |-> TRUE, chan |-> timer.chan, deadline |-> now + Max(d, 0)]

\* The timer expires: the runtime sends on timer.C, which holds one value.
TimerFire ==
  /\ tpc # "crashed"
  /\ timer.active
  /\ now >= timer.deadline
  /\ timer' = [active |-> FALSE, chan |-> 1, deadline |-> 0]
  /\ UNCHANGED <<updatePeriod, tpc, timerIsStopped, lastTick, now, tout, set>>
  /\ UNCHANGED loopVars

\* Time passes; the clock starts when RunRestartTicker does, and an armed
\* timer expires at its deadline.
Advance ==
  /\ tpc \notin {"tinit", "crashed"}
  /\ now < MaxTime
  /\ ~(timer.active /\ now >= timer.deadline)
  /\ now' = now + 1
  /\ UNCHANGED <<updatePeriod, tpc, timer, timerIsStopped, lastTick, tout, set>>
  /\ UNCHANGED loopVars

\* RunRestartTicker, up to its loop: the timer is created stopped and is
\* armed when UpdatePeriod > 0.
TickerBegin ==
  /\ tpc = "tinit"
  /\ IF updatePeriod > 0
     THEN /\ timer' = Reset(updatePeriod)
          /\ timerIsStopped' = FALSE
          /\ tout' = <<<<"Stop", 1>>, <<"Reset", updatePeriod>>>>
     ELSE /\ timer' = StoppedTimer
          /\ timerIsStopped' = TRUE
          /\ tout' = <<<<"Stop", 1>>>>
  /\ lastTick' = 0
  /\ tpc' = "select"
  /\ UNCHANGED <<updatePeriod, now, set>>
  /\ UNCHANGED loopVars

\* case <-ctx.Done(): when timer.Stop() returns false the ticker receives
\* from timer.C, and stays there ("ctxdrain") when timer.C is empty.
TickerCtxDone ==
  /\ tpc = "select"
  /\ ctxDone
  /\ IF timerIsStopped
     THEN /\ tpc' = "tdone"
          /\ tout' = <<>>
          /\ UNCHANGED timer
     ELSE IF timer.active
     THEN /\ tpc' = "tdone"
          /\ tout' = <<<<"Stop", 1>>>>
          /\ timer' = [timer EXCEPT !.active = FALSE, !.deadline = 0]
     ELSE IF timer.chan = 1
     THEN /\ tpc' = "tdone"
          /\ tout' = <<<<"Stop", 0>>, <<"recv", 0>>>>
          /\ timer' = [timer EXCEPT !.chan = 0]
     ELSE /\ tpc' = "ctxdrain"
          /\ tout' = <<<<"Stop", 0>>>>
          /\ UNCHANGED timer
  /\ UNCHANGED <<updatePeriod, timerIsStopped, lastTick, now, set>>
  /\ UNCHANGED loopVars

\* case <-timer.C: lastTick is taken and the ticker blocks at its send on
\* l.restart. The ticker is the only sender on l.restart where it runs.
TickRecv ==
  /\ tpc = "select"
  /\ timer.chan = 1
  /\ timer' = [timer EXCEPT !.chan = 0]
  /\ lastTick' = now
  /\ senders' = senders \cup {"restart"}
  /\ tpc' = "send"
  /\ tout' = <<<<"recv", 0>>>>
  /\ UNCHANGED <<updatePeriod, timerIsStopped, now, set>>
  /\ UNCHANGED <<pc, ctxDone, settings, triggeredRestart, unboundCancel,
                 waitError, proc, dnsInternal, dnsSystem, sysReq, lastCmd, out>>

\* Run has received the ticker's restart: GetSettings and
\* timer.Reset(settings.UpdatePeriod).
TickRearm ==
  /\ tpc = "send"
  /\ "restart" \notin senders
  /\ timer' = Reset(updatePeriod)
  /\ tout' = <<<<"Reset", updatePeriod>>>>
  /\ tpc' = "select"
  /\ UNCHANGED <<updatePeriod, timerIsStopped, lastTick, now, set>>
  /\ UNCHANGED loopVars

\* `if !timer.Stop() { <-timer.C }` where it does not block: the calls.
StopAndDrain ==
  IF timer.active THEN <<<<"Stop", 1>>>> ELSE <<<<"Stop", 0>>, <<"recv", 0>>>>

\* TickUpdate with the elapsed time left out of the new wait.
TickUpdate_FullPeriod ==
  /\ tpc = "select"
  /\ set.pc = "notify"
  /\ set' = [set EXCEPT !.pc = "return"]
  /\ IF ~timer.active /\ timer.chan = 0
     THEN /\ tpc' = "drain"
          /\ tout' = <<<<"Stop", 0>>>>
          /\ UNCHANGED <<timer, timerIsStopped>>
     ELSE /\ tpc' = "select"
          /\ IF updatePeriod = 0
             THEN /\ timer' = StoppedTimer
                  /\ timerIsStopped' = TRUE
                  /\ tout' = StopAndDrain
             ELSE /\ timer' = [Reset(updatePeriod) EXCEPT !.chan = 0]
                  /\ timerIsStopped' = FALSE
                  /\ tout' = StopAndDrain \o <<<<"Reset", updatePeriod>>>>
  /\ UNCHANGED <<updatePeriod, lastTick, now>>
  /\ UNCHANGED loopVars

\* case <-l.updateTicker: SetSettings' send completes. timer.Stop() returns
\* false for a timer that has expired or is stopped, and the ticker then
\* receives from timer.C: it stays there ("drain") when timer.C is empty.
\* Otherwise the timer is left stopped for UpdatePeriod 0 and is else reset
\* to UpdatePeriod less the time since lastTick, if lastTick was taken.
TickUpdate ==
  /\ tpc = "select"
  /\ set.pc = "notify"
  /\ set' = [set EXCEPT !.pc = "return"]
  /\ IF ~timer.active /\ timer.chan = 0
     THEN /\ tpc' = "drain"
          /\ tout' = <<<<"Stop", 0>>>>
          /\ UNCHANGED <<timer, timerIsStopped>>
     ELSE /\ tpc' = "select"
          /\ IF updatePeriod = 0
             THEN /\ timer' = StoppedTimer
                  /\ timerIsStopped' = TRUE
                  /\ tout' = StopAndDrain
             ELSE LET waited == IF lastTick # 0 THEN now - lastTick ELSE 0
                  IN /\ timer' = [Reset(updatePeriod - waited)
                                    EXCEPT !.chan = 0]
                     /\ timerIsStopped' = FALSE
                     /\ tout' = StopAndDrain
                                \o <<<<"Reset", updatePeriod - waited>>>>
  /\ UNCHANGED <<updatePeriod, lastTick, now>>
  /\ UNCHANGED loopVars

\* A step of RunRestartTicker.
TickerStep ==
  \/ TickerBegin
  \/ TickerCtxDone
  \/ TickRecv
  \/ TickRearm
  \/ TickUpdate

\* SetSettings(s with UpdatePeriod p), lines 72 to 77: Lock, the comparison,
\* the store and the Unlock of line 76; the caller then blocks at its send
\* on l.updateTicker ("notify") when the period differs.
SetStore(s, p) ==
  /\ set.pc = "idle"
  /\ settings' = s
  /\ updatePeriod' = p
  /\ set' = [pc |-> IF updatePeriod # p THEN "notify" ELSE "return",
             updatePeriodDiffers |-> updatePeriod # p,
             locks |-> 1, unlocks |-> 1]
  /\ UNCHANGED <<tpc, timer, timerIsStopped, lastTick, now, tout>>
  /\ UNCHANGED <<pc, ctxDone, triggeredRestart, unboundCancel, waitError,
                 proc, dnsInternal, dnsSystem, sysReq, senders, lastCmd, out>>

\* SetSettings returns: the deferred Unlock of line 73 runs. Unlock of a
\* mutex that is not locked is a fatal error of the Go runtime, which ends
\* the program with every goroutine in it.
SetReturn ==
  /\ set.pc = "return"
  /\ IF set.unlocks < set.locks
     THEN /\ set' = NoCall
          /\ UNCHANGED <<pc, tpc>>
     ELSE /\ set' = [set EXCEPT !.pc = "crashed", !.unlocks = @ + 1]
          /\ pc' = "crashed"
          /\ tpc' = "crashed"
  /\ UNCHANGED <<updatePeriod, timer, timerIsStopped, lastTick, now, tout>>
  /\ UNCHANGED <<ctxDone, settings, triggeredRestart, unboundCancel,
                 waitError, proc, dnsInternal, dnsSystem, sysReq, senders,
                 lastCmd, out>>

\* The ticker and SetSettings next to a Run that was given disabled settings
\* and waits in waitForFirstStart: nobody calls Start, Stop or Restart, and
\* SetSettings callers change the period only.
InitSched ==
  /\ InitLoop
  /\ settings = [Enabled |-> FALSE, PlaintextAddress |-> "P4",
                 Providers |-> <<"A">>]
  /\ updatePeriod \in Periods
  /\ InitTicker

NextSched ==
  \/ RunBegin
  \/ FirstRestart
  \/ FirstCtxDone
  \/ CancelCtx
  \/ TickerStep
  \/ TimerFire
  \/ Advance
  \/ \E p \in Periods : SetStore(settings, p)
  \/ SetReturn

SchedSpec == InitSched /\ [][NextSched]_vars

\* Run with its callers, and SetSettings callers that keep the period: the
\* ticker has not begun.
NextStore ==
  \/ Next
  \/ \E e \in BOOLEAN : SetStore([settings EXCEPT !.Enabled = e], updatePeriod)
  \/ SetReturn

StoreSpec == Init /\ [][NextStore]_vars

\* ------------------------------------------------- fallback selection

\* The longest settings.Providers.
MaxProviders == 2

ProviderNames == {"A", "B", "C", "D"}

ProviderLists == UNION {[1..n -> ProviderNames] : n \in 0..MaxProviders}

\* Run is given any plaintext address and any list of providers, and calls
\* useUnencryptedDNS at its start.
InitSelect ==
  /\ pc = "init"
  /\ ctxDone = FALSE
  /\ settings \in [Enabled : BOOLEAN, PlaintextAddress : {NoIP, "P4"},
                    Providers : ProviderLists]
  /\ triggeredRestart = FALSE
  /\ unboundCancel = 0
  /\ waitError = 0
  /\ proc = [p \in Procs |-> NoProc]
  /\ dnsInternal = OrigDNS
  /\ dnsSystem = OrigDNS
  /\ sysReq = NoIP
  /\ senders = {}
  /\ lastCmd = "none"
  /\ out = <<>>
  /\ updatePeriod = 0
  /\ InitTicker

NextSelect == RunBegin

SelectSpec == InitSelect /\ [][NextSelect]_vars

\* ---------------------------------------------------------------- claims

\* A process that Configurator.Start started and that has not yet been
\* cancelled and exited.
Live(p) ==
  /\ proc[p].st # "none"
  /\ ~(proc[p].cancelled /\ proc[p].st = "exited")

\* Run received command c in this step.
Received(c) == c \in senders /\ c \notin senders'

\* C1: in every reachable state of Run at most one resolver process that was
\* started by Configurator.Start and has not yet been cancelled and exited
\* exists.
C1_AtMostOneLiveProcess ==
  Cardinality({p \in Procs : Live(p)}) <= 1

\* C2: whenever Run is about to call Configurator.Start, every process started
\* before has been cancelled and its exit has been received from its exit
\* signal exactly once, the signal being closed at most once.
C2_ExitObservedBeforeLaunch ==
  pc = "launch" =>
    \A p \in Started :
      /\ proc[p].cancelled
      /\ proc[p].recvd = 1
      /\ proc[p].closed <= 1

\* C3, as claimed: once a setup step of the new cycle has run, no teardown of
\* a triggered restart is pending any more (it was completed first).
C3_TeardownBeforeSetup ==
  pc \in {"key", "conf"} => ~triggeredRestart

\* C3, amended: the teardown of a triggered restart is done after the setup
\* steps of the new cycle have all succeeded and before Configurator.Start.
\* While it is pending Run is at its loop test, in setup or backing off, and
\* the prior process is neither cancelled nor waited for; the teardown begins
\* in the step in which MakeUnboundConf succeeds; and when Configurator.Start
\* is reached nothing is pending and the process Run last waited on has been
\* cancelled and its exit signal received once.
C3_TeardownAfterSetup ==
  /\ (triggeredRestart /\ pc # "done") =>
       /\ pc \in {"top", "hints", "key", "conf", "backoff"}
       /\ waitError # 0
       /\ unboundCancel = waitError
       /\ ~proc[waitError].cancelled
       /\ proc[waitError].recvd = 0
  /\ pc = "teardown" =>
       /\ ~triggeredRestart
       /\ out = <<"MakeUnboundConf", "unboundCancel">>
       /\ proc[waitError].cancelled
       /\ proc[waitError].recvd = 0
  /\ pc = "launch" =>
       /\ ~triggeredRestart
       /\ waitError # 0 =>
            proc[waitError].cancelled /\ proc[waitError].recvd = 1

\* C3: a triggered restart's teardown has just been completed, after setup.
C3_Witness ==
  /\ pc = "launch"
  /\ out = <<"recv", "close">>
  /\ lastCmd = "restart"
  /\ proc[waitError].recvd = 1

\* C4: when the command Run received last is a Stop and Run has handled it,
\* Enabled is false, no resolver process is live and Run is parked waiting for
\* a command (or has returned); while a Stop received in the running loop is
\* being handled the process is cancelled before Enabled is cleared.
C4_StopLeavesInactive ==
  /\ (lastCmd = "stop" /\ pc # "stopDrain") =>
       /\ ~isEnabled
       /\ \A p \in Procs : ~Live(p)
       /\ pc \in {"first", "top", "reenable", "done"}
  /\ pc = "stopDrain" =>
       isEnabled /\ proc[unboundCancel].cancelled

\* C5: a Start received in the running loop calls neither Configurator.Start
\* nor unboundCancel, changes neither Enabled nor the process handle nor the
\* processes nor triggeredRestart, and leaves Run in the running loop.
C5_StartWhileActiveIsIdempotent ==
  [][(pc = "active" /\ Received("start")) =>
       /\ pc' = "active"
       /\ UNCHANGED <<settings, unboundCancel, waitError, proc,
                      triggeredRestart>>
       /\ "Start" \notin Range(out')
       /\ "unboundCancel" \notin Range(out')]_vars

\* C5: a Start has just been received in the running loop.
C5_Witness ==
  /\ pc = "active"
  /\ lastCmd = "start"
  /\ out = <<"logInfo">>
  /\ proc[unboundCancel].st = "running"

\* C6: a Restart received while disabled, in waitForFirstStart or in
\* waitForSubsequentStart, calls signalDNSReady once, leaves Enabled false and
\* Run waiting, and starts no process.
C6_RestartWhileDisabledSignals ==
  [][(pc \in {"first", "reenable"} /\ ~isEnabled /\ Received("restart")) =>
       /\ Count(out', "signalDNSReady") = 1
       /\ ~isEnabled'
       /\ pc' = pc
       /\ UNCHANGED proc]_vars

\* Run made a step: it moved on or received a command.
RunStepped == pc' # pc \/ \E c \in Commands : Received(c)

\* In the calls s, a call x comes before a call y.
Before(s, x, y) ==
  \E i, j \in DOMAIN s : i < j /\ s[i] = x /\ s[j] = y

\* C7: every step into the running loop comes from a successful
\* WaitForUnbound of a started process, with UseDNSInternally and
\* UseDNSSystemWide last called with the loopback address, and calls
\* signalDNSReady exactly once, as its last call; and no other step of Run's
\* loop calls signalDNSReady (the only other call is a Restart received in
\* waitForFirstStart while disabled), so a cycle that ends in logAndWait
\* never calls it.
C7_ReadyOncePerActivation ==
  [][/\ (pc # "active" /\ pc' = "active") =>
          /\ pc = "waitready"
          /\ unboundCancel' \in Started
          /\ dnsInternal' = Loopback
          /\ sysReq' = Loopback
          /\ Count(out', "signalDNSReady") = 1
          /\ out'[Len(out')] = "signalDNSReady"
          /\ Before(out', "WaitForUnbound", "signalDNSReady")
     /\ (RunStepped /\ "signalDNSReady" \in Range(out')) =>
          \/ pc = "waitready" /\ pc' = "active"
          \/ pc = "first" /\ pc' = "first" /\ Received("restart") /\ ~isEnabled
     /\ (pc # "backoff" /\ pc' = "backoff") =>
          "signalDNSReady" \notin Range(out')]_vars

\* C7: Run has just entered the running loop and called signalDNSReady.
C7_Witness ==
  /\ pc = "active"
  /\ Count(out, "signalDNSReady") = 1
  /\ dnsInternal = Loopback
  /\ dnsSystem = Loopback
  /\ proc[unboundCancel].waiter = "blocked"

\* C8: when Run takes the ctx.Done case in the running loop, the running
\* process is cancelled and its exit-wait goroutine is not yet received from;
\* the step that follows receives its exit signal exactly once, closes it once
\* and returns; and that step does come, whether the process had already
\* exited or exits because of the cancel.
C8_CancelInActiveDrainsOnce ==
  /\ [](pc = "ctxDrain" =>
          /\ waitError # 0
          /\ waitError = unboundCancel
          /\ proc[waitError].cancelled
          /\ proc[waitError].waiter = "blocked"
          /\ proc[waitError].recvd = 0
          /\ proc[waitError].closed = 0)
  /\ [][(pc = "ctxDrain" /\ pc' # pc) =>
          /\ pc' = "done"
          /\ proc'[waitError].waiter = "done"
          /\ proc'[waitError].recvd = 1
          /\ proc'[waitError].closed = 1]_vars
  /\ (pc = "ctxDrain") ~> (pc = "done")

\* C8: Run has returned after draining the exit signal on cancellation.
C8_Witness ==
  /\ pc = "done"
  /\ out = <<"recv", "close", "logWarn">>
  /\ proc[waitError].recvd = 1
  /\ proc[waitError].waiter = "done"

\* C9: when Run has returned, every process it started has been cancelled and
\* no exit-wait goroutine is left blocked on its send.
C9_CleanUnwind ==
  pc = "done" =>
    \A p \in Started :
      /\ proc[p].cancelled
      /\ proc[p].waiter # "blocked"

\* C10: a setup failure enters logAndWait without touching the DNS targets or
\* the processes; a launch, readiness or unexpected-exit failure calls
\* unboundCancel and then useUnencryptedDNS before logAndWait, so the handle
\* is cancelled and the DNS points at the fallback when there is one;
\* logAndWait ends after its timer or, once cancellation is signalled, at
\* once, and Run then goes back to its setup unless cancellation has been
\* signalled; Run returns only after cancellation has been signalled; and
\* from logAndWait Run does reach its setup or return.
C10_FailuresRecoveredLocally ==
  /\ [][(pc \in {"hints", "key", "conf"} /\ pc' = "backoff") =>
          /\ UNCHANGED <<dnsInternal, dnsSystem, sysReq, proc, unboundCancel>>
          /\ "UseDNSInternally" \notin Range(out')
          /\ "UseDNSSystemWide" \notin Range(out')]_vars
  /\ [][(pc \in {"launch", "waitready", "active"} /\ pc' = "backoff") =>
          /\ Before(out', "unboundCancel", "logWarn")
          /\ unboundCancel' # 0 => proc'[unboundCancel'].cancelled
          /\ TargetIP(settings) # NoIP =>
               /\ dnsInternal' = TargetIP(settings)
               /\ sysReq' = TargetIP(settings)
               /\ Before(out', "unboundCancel", "UseDNSInternally")
               /\ Before(out', "UseDNSInternally", "logWarn")
               /\ Before(out', "UseDNSSystemWide", "logWarn")]_vars
  /\ [][(pc = "backoff" /\ pc' # pc) =>
          /\ pc' = "top"
          /\ out' \in {<<"timer">>, <<"ctxDone">>}
          /\ out' = <<"ctxDone">> => ctxDone]_vars
  /\ [](pc = "backoff" /\ ctxDone => ENABLED BackoffCtxDone)
  /\ [][(pc = "top" /\ out \in {<<"timer">>, <<"ctxDone">>} /\ pc' # pc) =>
          pc' = IF ctxDone THEN "done" ELSE "hints"]_vars
  /\ [](pc = "done" => ctxDone)
  /\ (pc = "backoff") ~> (pc = "hints" \/ pc = "done")

\* C10: a started process failed (readiness or unexpected exit), the fallback
\* is engaged, the backoff has ended and Run is in its setup again, with no
\* command received since the Start and no cancellation.
C10_Witness ==
  /\ pc = "hints"
  /\ ~ctxDone
  /\ out = <<>>
  /\ lastCmd = "start"
  /\ Started # {}
  /\ \A p \in Started : proc[p].cancelled
  /\ TargetIP(settings) # NoIP
  /\ dnsInternal = TargetIP(settings)
  /\ dnsSystem = TargetIP(settings)

\* C11: while the stored UpdatePeriod is 0 the ticker leaves its timer
\* disarmed: no step arms the timer while UpdatePeriod is 0, so that no
\* Restart is sent for a period of 0, also when the 0 was stored while the
\* ticker was blocked at its send on l.restart.
C11_ZeroPeriodDisarmed ==
  [][(updatePeriod = 0 /\ updatePeriod' = 0 /\ timer'.active)
       => timer.active]_vars

\* The ticker received SetSettings' send on l.updateTicker in this step.
Notified == set.pc = "notify" /\ set'.pc = "return"

\* C12: when the ticker receives a notification while its timer is disarmed
\* (timerIsStopped) and the stored UpdatePeriod is not 0, it handles the
\* notification without blocking and rearms the timer: it is back at its
\* select with the timer armed.
C12_RearmFromDisarmed ==
  [][(Notified /\ timerIsStopped /\ updatePeriod # 0)
       => (tpc' = "select" /\ timer'.active)]_vars

\* C13 as claimed: when the ticker handles a change to a period P2 # 0 while
\* its timer is armed, the timer next expires Max(P2 - E, 0) later, E being
\* the time since the last tick or, when no tick has occurred yet, since the
\* ticker armed the timer at its start (time 1).
C13_RemainingWaitFromCycleStart ==
  [][(Notified /\ timer.active /\ updatePeriod # 0)
       => LET E == now - (IF lastTick # 0 THEN lastTick ELSE 1)
          IN /\ timer'.active
             /\ timer'.deadline = now + Max(updatePeriod - E, 0)]_vars

\* C13 as amended: when the ticker handles a change to a period P2 # 0 while
\* its timer is armed, the timer next expires Max(P2 - E, 0) later, E being
\* the time since the last tick, and 0 when no tick has occurred yet.
C13_RemainingWaitFromLastTick ==
  [][(Notified /\ timer.active /\ updatePeriod # 0)
       => LET E == IF lastTick # 0 THEN now - lastTick ELSE 0
          IN /\ timer'.active
             /\ timer'.deadline = now + Max(updatePeriod - E, 0)]_vars

\* A change to period 1 has just been handled 2 after the last tick, the
\* timer armed until then: timer.Stop() returned true, timer.Reset(-1) was
\* called and the timer expires at once.
C13_Witness ==
  /\ tpc = "select"
  /\ set.pc = "return"
  /\ updatePeriod = 1
  /\ lastTick # 0
  /\ now = lastTick + 2
  /\ tout = <<<<"Stop", 1>>, <<"Reset", -1>>>>
  /\ timer.active
  /\ timer.deadline = now

\* The number of calls of `name` among the timer calls in calls.
Calls(calls, name) == Cardinality({i \in DOMAIN calls : calls[i][1] = name})

\* C14, SetSettings' part: a call sends on l.updateTicker exactly when the
\* period it stores differs from the stored one, and it sends after the
\* store with the lock released.
C14_NotifiesIffPeriodDiffers ==
  (set.pc = "idle" /\ set'.pc # "idle")
    => /\ (set'.pc = "notify") = (updatePeriod' # updatePeriod)
       /\ set'.locks = set'.unlocks

\* C14, the ticker's part: for a notification it receives, the ticker
\* disarms its timer once and, for a period that is not 0, rearms it once,
\* and is back at its select.
C14_OneDisarmAndRearm ==
  Notified
    => /\ tpc' = "select"
       /\ Calls(tout', "Stop") = 1
       /\ updatePeriod # 0 => (Calls(tout', "Reset") = 1 /\ timer'.active)

\* C14: a SetSettings call whose period differs sends exactly one
\* notification, after its store and unlock, and the ticker performs exactly
\* one disarm-and-rearm for it; a call with the same period sends none.
C14_OneNotificationOneRearm ==
  [][C14_NotifiesIffPeriodDiffers /\ C14_OneDisarmAndRearm]_vars

\* C15: a SetSettings call locks the settings mutex once and unlocks it
\* once: it never unlocks the mutex more often than it has locked it, and the
\* program does not end in the runtime's fatal error for such an Unlock.
C15_UnlocksOnlyWhatItHolds ==
  /\ set.unlocks <= set.locks
  /\ set.pc # "crashed"

\* C16: the stored Enabled flag changes only in steps of Run; a SetSettings
\* call leaves it as it is, whatever Enabled value the new settings carry.
C16_EnabledOnlyByRun ==
  [][settings'.Enabled # settings.Enabled => (RunStepped /\ set' = set)]_vars

\* C17: after ctx is cancelled the ticker returns: with ctx cancelled and Run
\* returned, a ticker at its select or at its send on l.restart (the timer
\* has just fired) can take its next step.
C17_TickerReturnsAfterCancel ==
  (ctxDone /\ pc = "done" /\ tpc \in {"select", "send"})
    => ENABLED TickerStep

\* The addresses of the providers of ps, in the order of ps and, for each
\* provider, in the order of its list.
RECURSIVE AllIPs(_)
AllIPs(ps) == IF ps = <<>> THEN <<>> ELSE ProviderIPs(Head(ps)) \o AllIPs(Tail(ps))

\* C18: after useUnencryptedDNS, the target is PlaintextAddress if that is
\* set; else it is the first IPv4 address met when the providers are taken
\* in their order and each provider's addresses in theirs; and when no
\* provider has an IPv4 address an error is logged and neither the internal
\* nor the system-wide DNS is changed.
C18_FallbackSelection ==
  pc = "first" =>
    LET ips == AllIPs(settings.Providers)
        v4 == {i \in DOMAIN ips : IsIPv4(ips[i])}
        Target(t) == /\ dnsInternal = t
                     /\ sysReq = t
                     /\ dnsSystem \in {t, OrigDNS}
                     /\ out[1] = "UseDNSInternally"
    IN IF settings.PlaintextAddress # NoIP
       THEN Target(settings.PlaintextAddress)
       ELSE IF v4 # {}
       THEN \E i \in v4 : (\A j \in v4 : i <= j) /\ Target(ips[i])
       ELSE /\ dnsInternal = OrigDNS
            /\ dnsSystem = OrigDNS
            /\ sysReq = NoIP
            /\ out = <<"logError">>

\* No plaintext address, a first provider without IPv4 address and a second
\* one with two: the first of the two is the target.
C18_Witness ==
  /\ pc = "first"
  /\ settings.PlaintextAddress = NoIP
  /\ settings.Providers = <<"A", "D">>
  /\ dnsInternal = "D4a"
  /\ dnsSystem = "D4a"

\* C19: when ctx is cancelled while Run is parked in waitForSubsequentStart
\* and Run takes the ctx.Done() case, Run calls unboundCancel and returns:
\* it runs no setup and calls Configurator.Start no more.
C19_CancelWhileParkedReturns ==
  [][(pc = "reenable" /\ ctxDone /\ pc' # pc /\ senders' = senders)
       => (pc' = "done" /\ "unboundCancel" \in Range(out'))]_vars

\* Run is backing off in logAndWait after Configurator.Start failed,
\* WaitForUnbound failed or the process exited in the select of line 227.
BackingOffAfterFailure ==
  pc = "backoff" /\ out[1] \in {"Start", "WaitForUnbound", "recv"}

\* C20: whenever useUnencryptedDNS has an address to select and Run waits
\* with no live process, parked in waitForSubsequentStart after a Stop or
\* backing off after a launch, readiness or exit failure, the system-wide
\* DNS target Run last set is that fallback address and not the loopback
\* address.
C20_FallbackWhileWaiting ==
  (TargetIP(settings) # NoIP /\ (pc = "reenable" \/ BackingOffAfterFailure))
    => (sysReq = TargetIP(settings) /\ sysReq # Loopback)

====
